---- MODULE Spec2Model ----
(***************************************************************************)
(* A model of igviz (src/igviz/igviz.py): plot() and the PlotGraph class   *)
(* that turns a networkx graph into plotly traces and recolours the node   *)
(* trace on hover.                                                         *)
(*                                                                         *)
(* Encoding.  Nodes are 1..G.n, in the graph's iteration order.  A Python  *)
(* dict is a sequence of [k, v] entries in insertion order.  Python's None *)
(* is the string "None".  A coordinate pair is a tuple <<x, y>>; all       *)
(* coordinates are even integers, so the mean of two of them is exact.     *)
(* A marker colour is a record that is either a number or a string.        *)
(***************************************************************************)
EXTENDS Integers, Sequences, FiniteSets

VARIABLES
    G,                    \* the caller's graph; its "pos" attributes are mutated in place
    pos_before,           \* history: the "pos" attributes G carried when plot was called
    args,                 \* the arguments of plot()
    pc,                   \* the next line of plot() to run, "returned" or "raised"
    err,                  \* the exception that ended plot() and the call that raised it
    pos_dict,             \* PlotGraph.pos_dict
    inverse_pos_dict,     \* PlotGraph.inverse_pos_dict
    node_trace,           \* the trace generate_node_traces built (= original_node_trace)
    edge_trace,           \* the first trace generate_edge_traces returns
    middle_node_trace,    \* the second trace generate_edge_traces returns
    edge_properties,      \* generate_edge_traces' local aggregation dict, as it ended
    f_data1,              \* self.f.data[1]: the node trace the figure owns and shows
    last_event            \* history: the last callback delivered, the mark index it
                          \* carried, the node on_hover resolved, and whether the
                          \* trace was dimmed when it arrived

vars == <<G, pos_before, args, pc, err, pos_dict, inverse_pos_dict, node_trace,
          edge_trace, middle_node_trace, edge_properties, f_data1, last_event>>

-----------------------------------------------------------------------------
(* Bounds *)

MaxNodes == 3

MaxEdges == 2

\* Nodes of the graphs whose edges carry varied attributes (InitEdges).
MaxEdgeNodes == 2

-----------------------------------------------------------------------------
(* Python values *)

None == "None"

\* Truth value of an optional string (layout, edge_label) and of an optional list
\* (edge_text; None and [] are both written <<>>).
TruthyStr(x) == x # None /\ x # ""

TruthyList(x) == x # <<>>

\* A node without a "pos" attribute.
NoPos == <<-1, -1>>

Num(d) == [t |-> "num", n |-> d, s |-> ""]

Str(c) == [t |-> "str", n |-> 0, s |-> c]

\* None as an entry of a coordinate sequence.
NoneValue == [t |-> "none", n |-> 0, s |-> ""]

\* dict: keys, membership, lookup, assignment d[key] = val
Keys(d) == {d[i].k : i \in DOMAIN d}

Has(d, key) == key \in Keys(d)

Get(d, key) == d[CHOOSE i \in DOMAIN d : d[i].k = key].v

Put(d, key, val) ==
    IF Has(d, key)
    THEN [i \in DOMAIN d |-> IF d[i].k = key THEN [k |-> key, v |-> val] ELSE d[i]]
    ELSE Append(d, [k |-> key, v |-> val])

\* list(d).index(key), counted from 1
IndexOf(d, key) == CHOOSE i \in DOMAIN d : d[i].k = key /\ \A j \in 1..(i-1) : d[j].k # key

-----------------------------------------------------------------------------
(* The networkx graph queries the code uses *)

Nodes(g) == 1..g.n

\* G.degree(node): a self-loop counts twice
Degree(g, node) ==
    Cardinality({i \in DOMAIN g.edges : g.edges[i].u = node})
  + Cardinality({i \in DOMAIN g.edges : g.edges[i].v = node})

\* G.neighbors(node): the successors in a directed graph
Neighbors(g, node) ==
    {g.edges[i].v : i \in {j \in DOMAIN g.edges : g.edges[j].u = node}}
    \cup (IF g.directed THEN {}
          ELSE {g.edges[i].u : i \in {j \in DOMAIN g.edges : g.edges[j].v = node}})

RECURSIVE NodeAttrsFrom(_, _)
\* nx.get_node_attributes(G, "pos") over the nodes from i on: the nodes that have the attribute
NodeAttrsFrom(g, i) ==
    IF i > g.n THEN <<>>
    ELSE (IF g.pos[i] # NoPos THEN <<[k |-> i, v |-> g.pos[i]]>> ELSE <<>>)
         \o NodeAttrsFrom(g, i + 1)

get_node_attributes(g) == NodeAttrsFrom(g, 1)

\* nx.set_node_attributes(G, values, "pos")
set_node_attributes(g, values) ==
    [g EXCEPT !.pos = [i \in Nodes(g) |-> IF Has(values, i) THEN Get(values, i) ELSE g.pos[i]]]

-----------------------------------------------------------------------------
(* Layout resolution: PlotGraph.__init__ and PlotGraph._apply_layout *)

\* The keys of layout_functions.
LayoutNames == {"random", "circular", "kamada", "planar", "spring", "spectral", "spiral"}

\* Positions a layout routine may hand out: every node on a point of its own, or all
\* nodes on one point (spectral_layout of an edgeless graph, circular_layout of one node).
LayoutPoint(i) == <<4 * i + 2, 2 + 4 * (i % 2)>>

LayoutShared == <<2, 2>>

RECURSIVE DictOver(_, _, _)
\* The dict {i: f[i]} for the nodes from i to n, in node order.
DictOver(f, i, n) ==
    IF i > n THEN <<>> ELSE <<[k |-> i, v |-> f[i]]>> \o DictOver(f, i + 1, n)

\* What layout_functions[layout](G) can do: return a position for every node of G, in
\* node order, or raise.  nx.planar_layout raises on a non-planar graph, and every
\* graph on at most four nodes is planar.
LayoutOutcomes(g, layout) ==
    {[raised |-> "none", pos |-> DictOver([i \in Nodes(g) |-> LayoutPoint(i)], 1, g.n)],
     [raised |-> "none", pos |-> DictOver([i \in Nodes(g) |-> LayoutShared], 1, g.n)]}
    \cup (IF layout = "planar" /\ g.n >= 5
          THEN {[raised |-> "NetworkXException", pos |-> <<>>]}
          ELSE {})

\* A layout call that returns the positions without storing them on G.
apply_layout_no_writeback(g, layout, out) ==
    IF layout \notin LayoutNames
    THEN [err |-> "KeyError", G |-> g, pos_dict |-> <<>>]
    ELSE [err |-> out.raised, G |-> g, pos_dict |-> out.pos]

\* PlotGraph._apply_layout(G, layout); out is what the layout routine does.
apply_layout(g, layout, out) ==
    IF layout \notin LayoutNames
    THEN [err |-> "KeyError", G |-> g, pos_dict |-> <<>>]
    ELSE IF out.raised # "none"
    THEN [err |-> out.raised, G |-> g, pos_dict |-> <<>>]
    ELSE [err |-> "none", G |-> set_node_attributes(g, out.pos), pos_dict |-> out.pos]

RECURSIVE InverseFrom(_, _, _)
\* {(v[0], v[1]): k for k, v in pos_dict.items()}: a later node with the same
\* coordinates replaces the earlier one.
InverseFrom(d, i, acc) ==
    IF i > Len(d) THEN acc
    ELSE InverseFrom(d, i + 1, Put(acc, <<d[i].v[1], d[i].v[2]>>, d[i].k))

inverse_of(d) == InverseFrom(d, 1, <<>>)

\* PlotGraph.__init__(G, layout); out is what the layout routine does if it is called.
PlotGraph_init(g, layout, out) ==
    LET r == IF TruthyStr(layout) THEN apply_layout(g, layout, out)
             ELSE IF get_node_attributes(g) = <<>> THEN apply_layout(g, "random", out)
             ELSE [err |-> "none", G |-> g, pos_dict |-> get_node_attributes(g)]
    IN  [err |-> r.err, G |-> r.G, pos_dict |-> r.pos_dict,
         inverse_pos_dict |-> IF r.err = "none" THEN inverse_of(r.pos_dict) ELSE <<>>]

-----------------------------------------------------------------------------
(* Node trace assembly: PlotGraph.generate_node_traces *)

DegreeOffset == 12

StaticSize == 28

EmptyNodeTrace == [x |-> <<>>, y |-> <<>>, color |-> <<>>, size |-> <<>>]

\* marker.size of one node, for the size methods "degree" and "static".
NodeSize(g, node, size_method) ==
    IF size_method = "degree" THEN Degree(g, node) + DegreeOffset ELSE StaticSize

\* marker.color of one node.  The nodes carry no attribute but "pos", so a
\* color_method other than "degree" is the literal colour.
NodeColor(g, node, color_method) ==
    IF color_method = "degree" THEN Num(Degree(g, node)) ELSE Str(color_method)

RECURSIVE NodeLoop(_, _, _, _, _)
\* The loop over G.nodes() from node i on; reading a missing "pos" raises KeyError, and
\* so does a size_method that names an attribute the node does not carry.
NodeLoop(g, i, color_method, size_method, tr) ==
    IF i > g.n THEN [err |-> "none", trace |-> tr]
    ELSE IF g.pos[i] = NoPos THEN [err |-> "KeyError", trace |-> tr]
    ELSE IF size_method \notin {"degree", "static"} THEN [err |-> "KeyError", trace |-> tr]
    ELSE NodeLoop(g, i + 1, color_method, size_method,
                  [x     |-> Append(tr.x, g.pos[i][1]),
                   y     |-> Append(tr.y, g.pos[i][2]),
                   color |-> Append(tr.color, NodeColor(g, i, color_method)),
                   size  |-> Append(tr.size, NodeSize(g, i, size_method))])

generate_node_traces(g, color_method, size_method) ==
    NodeLoop(g, 1, color_method, size_method, EmptyNodeTrace)

-----------------------------------------------------------------------------
(* Edge trace assembly: PlotGraph.generate_edge_traces *)

EmptyEdgeState ==
    [x |-> <<>>, y |-> <<>>,                       \* edge_trace
     mx |-> <<>>, my |-> <<>>, text |-> <<>>,      \* middle_node_trace
     props |-> <<>>,                               \* edge_properties
     err |-> "none"]

\* An edge line that leaves the gap marker out.
edge_line_no_gap(st, p0, p1) ==
    [st EXCEPT !.x = st.x \o <<Num(p0[1]), Num(p1[1])>>,
               !.y = st.y \o <<Num(p0[2]), Num(p1[2])>>]

\* edge_trace["x"] += (x0, x1, None); edge_trace["y"] += (y0, y1, None)
edge_line(st, p0, p1) ==
    [st EXCEPT !.x = st.x \o <<Num(p0[1]), Num(p1[1]), NoneValue>>,
               !.y = st.y \o <<Num(p0[2]), Num(p1[2]), NoneValue>>]

\* A midpoint mark added on every sighting of a pair.
midpoint_mark_every_edge(st, edge_pair, p0, p1) ==
    [st EXCEPT !.props = Put(st.props, edge_pair,
                             IF Has(st.props, edge_pair) THEN Get(st.props, edge_pair) ELSE <<>>),
               !.mx = Append(st.mx, (p0[1] + p1[1]) \div 2),
               !.my = Append(st.my, (p0[2] + p1[2]) \div 2)]

\* if edge_pair not in edge_properties: a new entry and a midpoint mark
midpoint_mark(st, edge_pair, p0, p1) ==
    IF Has(st.props, edge_pair) THEN st
    ELSE [st EXCEPT !.props = Put(st.props, edge_pair, <<>>),
                    !.mx = Append(st.mx, (p0[1] + p1[1]) \div 2),
                    !.my = Append(st.my, (p0[2] + p1[2]) \div 2)]

RECURSIVE ResetProps(_, _, _, _)
\* for prop in edge_text: if edge[2][prop] not in edge_properties[edge_pair]:
\*     edge_properties[edge_pair][prop] = []
\* The test looks the attribute's VALUE up among the entry's keys.
ResetProps(entry, data, edge_text, i) ==
    IF i > Len(edge_text) THEN entry
    ELSE ResetProps(IF data[edge_text[i]] \notin Keys(entry)
                    THEN Put(entry, edge_text[i], <<>>)
                    ELSE entry,
                    data, edge_text, i + 1)

\* Lines 332-336.  The append stands after the loop, so it runs once, for the last
\* name of edge_text; it raises KeyError if that name has no list yet.
aggregate(st, edge_pair, data, edge_text) ==
    LET entry == ResetProps(Get(st.props, edge_pair), data, edge_text, 1)
        prop  == edge_text[Len(edge_text)]
    IN  IF Has(entry, prop)
        THEN [st EXCEPT !.props = Put(st.props, edge_pair,
                                      Put(entry, prop, Append(Get(entry, prop), data[prop])))]
        ELSE [st EXCEPT !.props = Put(st.props, edge_pair, entry), !.err = "KeyError"]

\* middle_node_trace["text"] += (edge[2][edge_label],)
label_text(st, data, edge_label) == [st EXCEPT !.text = Append(st.text, data[edge_label])]

\* One pass of the loop over G.edges(data=True).
edge_step(g, st, e, edge_label, edge_text) ==
    IF g.pos[e.u] = NoPos \/ g.pos[e.v] = NoPos THEN [st EXCEPT !.err = "KeyError"]
    ELSE
    LET p0 == g.pos[e.u]
        p1 == g.pos[e.v]
        edge_pair == <<e.u, e.v>>
        s1 == edge_line(st, p0, p1)
        s2 == IF TruthyList(edge_text) \/ TruthyStr(edge_label)
              THEN midpoint_mark(s1, edge_pair, p0, p1) ELSE s1
        s3 == IF TruthyList(edge_text) THEN aggregate(s2, edge_pair, e.data, edge_text) ELSE s2
    IN  IF s3.err # "none" THEN s3
        ELSE IF TruthyStr(edge_label) THEN label_text(s3, e.data, edge_label) ELSE s3

RECURSIVE EdgeLoop(_, _, _, _, _)
EdgeLoop(g, st, i, edge_label, edge_text) ==
    IF i > Len(g.edges) \/ st.err # "none" THEN st
    ELSE EdgeLoop(g, edge_step(g, st, g.edges[i], edge_label, edge_text), i + 1,
                  edge_label, edge_text)

\* edge_text_list: per pair, the lines "k: v" of its entry, in the entry's order.
\* A line is kept as its [k, v] entry.
hovertext_of(props) == [i \in DOMAIN props |-> props[i].v]

generate_edge_traces(g, edge_label, edge_text) ==
    LET st == EdgeLoop(g, EmptyEdgeState, 1, edge_label, edge_text)
    IN  [err |-> st.err,
         edge_trace |-> [x |-> st.x, y |-> st.y],
         middle_node_trace |->
             [x |-> st.mx, y |-> st.my, text |-> st.text,
              hovertext |-> IF TruthyList(edge_text) THEN hovertext_of(st.props) ELSE <<>>],
         edge_properties |-> st.props]

-----------------------------------------------------------------------------
(* Figure assembly: the call at the end of plot() and PlotGraph.generate_figure *)

\* The parameters of generate_figure after self; none has a default.
GenerateFigureParams ==
    <<"node_trace", "edge_trace", "middle_node_trace", "title", "titlefont_size",
      "showlegend", "annotation_text", "arrow_size", "transparent_background",
      "highlight_neighbours_on_hover", "figure_layout", "node_layout">>

\* The call plot() makes: three positional arguments, then keyword arguments.
PlotCall ==
    [positional |-> <<"node_trace", "edge_trace", "middle_node_trace">>,
     keywords   |-> {"title", "titlefont_size", "showlegend", "annotation_text",
                     "arrow_size", "transparent_background",
                     "highlight_neighbours_on_hover", "figure_layout", "node_style"}]

\* The names the module defines at top level.
ModuleGlobals == {"List", "Tuple", "Union", "nx", "go", "callbacks", "plot", "PlotGraph"}

\* Python's argument binding: every keyword names a parameter that no positional
\* argument fills, and every parameter gets a value.
Binds(call, params) ==
    LET filled == {params[i] : i \in 1..Len(call.positional)}
        names  == {params[i] : i \in DOMAIN params}
    IN  /\ Len(call.positional) <= Len(params)
        /\ call.keywords \subseteq names \ filled
        /\ names \subseteq filled \cup call.keywords

\* FigureWidget(data=[edge_trace, node_trace, middle_node_trace]): the figure holds
\* traces of its own, built from the properties of the ones passed in.
FigureWidget_data1(tr) == tr

\* generate_figure as called with `call`: the binding, then the body, whose line 405
\* reads the name node_style.
generate_figure(call, tr) ==
    IF ~Binds(call, GenerateFigureParams)
    THEN [err |-> "TypeError", f_data1 |-> EmptyNodeTrace]
    ELSE IF "node_style" \notin {GenerateFigureParams[i] : i \in DOMAIN GenerateFigureParams}
                                \cup ModuleGlobals
    THEN [err |-> "NameError", f_data1 |-> EmptyNodeTrace]
    ELSE [err |-> "none", f_data1 |-> FigureWidget_data1(tr)]

-----------------------------------------------------------------------------
(* The hover callbacks: PlotGraph.on_hover and PlotGraph.on_unhover *)

Gray == Str("#E4E4E4")

\* The points argument of a callback: empty, or the mark with index i of the trace.
NoPoints == [point_inds |-> <<>>, xs |-> <<>>, ys |-> <<>>]

PointsAt(tr, i) == [point_inds |-> <<i>>, xs |-> <<tr.x[i]>>, ys |-> <<tr.y[i]>>]

\* self.inverse_pos_dict[(points.xs[0], points.ys[0])]
hovered_node(inv, points) == Get(inv, <<points.xs[1], points.ys[1]>>)

\* on_hover(trace, points, _): the new trace.marker.color
on_hover(g, pd, inv, tr, points) ==
    IF points.point_inds = <<>> THEN tr
    ELSE
    LET node == hovered_node(inv, points)
        neighbours == Neighbors(g, node)
        node_colours == tr.color
        kept == {points.point_inds[1]} \cup {IndexOf(pd, nb) : nb \in neighbours}
    IN  [tr EXCEPT !.color = [i \in DOMAIN node_colours |->
                                 IF i \in kept THEN node_colours[i] ELSE Gray]]

\* An unhover that leaves the colours as they are.
on_unhover_keeps_colours(tr, original) == [tr EXCEPT !.size = original.size]

\* on_unhover(trace, points, _)
on_unhover(tr, original) == [tr EXCEPT !.color = original.color, !.size = original.size]

-----------------------------------------------------------------------------
(* The graphs and arguments plot() is called with *)

\* Positions a caller may have stored on G: a point of the node's own, or one point
\* shared with other nodes.
CallerPoint(i) == <<4 * i, 4 * (i % 2)>>

CallerShared == <<0, 0>>

DefaultData == [weight |-> "1", kind |-> "road"]

\* Edge attribute dicts; a value may be a string that is also an attribute name.
EdgeData ==
    {[weight |-> "1", kind |-> "road"],
     [weight |-> "2", kind |-> "road"],
     [weight |-> "1", kind |-> "weight"]}

\* The edges a graph of this kind can hold over n nodes; an undirected edge is
\* reported from the endpoint that comes first in node order.
EdgeChoices(n, directed, datas) ==
    {e \in [u : 1..n, v : 1..n, data : datas] : directed \/ e.u <= e.v}

\* G.edges() visits the nodes in order and, per node, each neighbour once with all
\* its parallel edges; only a multigraph has parallel edges.
CanFollow(s, e, multi) ==
    \/ s = <<>>
    \/ /\ s[Len(s)].u <= e.u
       /\ \A i \in DOMAIN s :
              (s[i].u = e.u /\ s[i].v = e.v)
                  => (multi /\ s[Len(s)].u = e.u /\ s[Len(s)].v = e.v)

RECURSIVE EdgeSeqs(_, _, _, _, _)
EdgeSeqs(n, directed, multi, datas, k) ==
    IF k = 0 THEN {<<>>}
    ELSE LET shorter == EdgeSeqs(n, directed, multi, datas, k - 1)
         IN  shorter \cup
             {Append(s, e) : <<s, e>> \in
                 {se \in shorter \X EdgeChoices(n, directed, datas) :
                     Len(se[1]) = k - 1 /\ CanFollow(se[1], se[2], multi)}}

\* Graph and DiGraph objects (and, with TRUE in multis, MultiGraph and MultiDiGraph
\* objects) with at most maxn nodes and maxe edges, each node's "pos" drawn from
\* positions[i].
GraphsOf(maxn, maxe, positions, datas, multis) ==
    UNION {
        {[n |-> n, directed |-> d, multi |-> m, edges |-> es, pos |-> ps] :
            es \in EdgeSeqs(n, d, m, datas, maxe),
            ps \in {f \in [1..n -> UNION {positions[i] : i \in 1..n}] :
                       \A i \in 1..n : f[i] \in positions[i]}}
        : <<n, d, m>> \in (0..maxn) \X BOOLEAN \X multis}

\* Per node, the "pos" values a caller's graph may carry: any or none; one on every
\* node, the first two nodes possibly on the same point; a distinct one on every node.
AnyPos == [i \in 1..(MaxNodes + MaxEdgeNodes) |-> {NoPos, CallerShared, CallerPoint(i)}]

SomePos ==
    [i \in 1..(MaxNodes + MaxEdgeNodes) |->
        IF i <= 2 THEN {CallerShared, CallerPoint(i)} ELSE {CallerPoint(i)}]

OwnPos == [i \in 1..(MaxNodes + MaxEdgeNodes) |-> {CallerPoint(i)}]

NoError == [type |-> "none", at |-> "none"]

NoEvent == [type |-> "none", ind |-> 0, node |-> 0, was_dimmed |-> FALSE]

DefaultArgs ==
    [layout |-> None, color_method |-> "degree", size_method |-> "degree",
     edge_label |-> None, edge_text |-> <<>>, highlight_neighbours_on_hover |-> TRUE]

\* The state when plot(G, ...) is entered.
Entered(g, a) ==
    /\ G = g
    /\ pos_before = g.pos
    /\ args = a
    /\ pc = "PlotGraph"
    /\ err = NoError
    /\ pos_dict = <<>>
    /\ inverse_pos_dict = <<>>
    /\ node_trace = EmptyNodeTrace
    /\ edge_trace = [x |-> <<>>, y |-> <<>>]
    /\ middle_node_trace = [x |-> <<>>, y |-> <<>>, text |-> <<>>, hovertext |-> <<>>]
    /\ edge_properties = <<>>
    /\ f_data1 = EmptyNodeTrace
    /\ last_event = NoEvent

\* Any graph of at most one edge, with or without stored positions, and any layout
\* argument.
Init ==
    \E g \in GraphsOf(MaxNodes, 1, AnyPos, {DefaultData}, BOOLEAN) :
    \E l \in {None, "bogus"} \cup LayoutNames :
        Entered(g, [DefaultArgs EXCEPT !.layout = l])

\* Graphs with stored positions and attributed edges, and any edge_label and edge_text.
InitEdges ==
    \E g \in GraphsOf(MaxEdgeNodes, MaxEdges, OwnPos, EdgeData, BOOLEAN) :
    \E el \in {None, "weight"} :
    \E et \in {<<>>, <<"weight">>, <<"weight", "kind">>} :
        Entered(g, [DefaultArgs EXCEPT !.edge_label = el, !.edge_text = et])

-----------------------------------------------------------------------------
(* plot(): one action per call it makes *)

Raise(e) ==
    /\ pc' = "raised"
    /\ err' = [type |-> e, at |-> pc]

\* line 140: plot = PlotGraph(G, layout)
PlotGraph ==
    /\ pc = "PlotGraph"
    /\ \E out \in LayoutOutcomes(G, args.layout) :
        LET r == PlotGraph_init(G, args.layout, out)
        IN  /\ G' = r.G
            /\ pos_dict' = r.pos_dict
            /\ inverse_pos_dict' = r.inverse_pos_dict
            /\ IF r.err = "none"
               THEN pc' = "generate_node_traces" /\ err' = err
               ELSE Raise(r.err)
    /\ UNCHANGED <<pos_before, args, node_trace, edge_trace, middle_node_trace,
                   edge_properties, f_data1, last_event>>

\* lines 142-151: node_trace = plot.generate_node_traces(...)
GenerateNodeTraces ==
    /\ pc = "generate_node_traces"
    /\ LET r == generate_node_traces(G, args.color_method, args.size_method)
       IN  IF r.err = "none"
           THEN /\ node_trace' = r.trace
                /\ pc' = "generate_edge_traces"
                /\ err' = err
           ELSE /\ node_trace' = node_trace
                /\ Raise(r.err)
    /\ UNCHANGED <<G, pos_before, args, pos_dict, inverse_pos_dict, edge_trace,
                   middle_node_trace, edge_properties, f_data1, last_event>>

\* lines 153-157: edge_trace, middle_node_trace = plot.generate_edge_traces(...)
GenerateEdgeTraces ==
    /\ pc = "generate_edge_traces"
    /\ LET r == generate_edge_traces(G, args.edge_label, args.edge_text)
       IN  IF r.err = "none"
           THEN /\ edge_trace' = r.edge_trace
                /\ middle_node_trace' = r.middle_node_trace
                /\ edge_properties' = r.edge_properties
                /\ pc' = "generate_figure"
                /\ err' = err
           ELSE /\ UNCHANGED <<edge_trace, middle_node_trace, edge_properties>>
                /\ Raise(r.err)
    /\ UNCHANGED <<G, pos_before, args, pos_dict, inverse_pos_dict, node_trace,
                   f_data1, last_event>>

\* lines 159-172: return plot.generate_figure(...)
GenerateFigure ==
    /\ pc = "generate_figure"
    /\ LET r == generate_figure(PlotCall, node_trace)
       IN  /\ f_data1' = r.f_data1
           /\ IF r.err = "none"
              THEN pc' = "returned" /\ err' = err
              ELSE Raise(r.err)
    /\ UNCHANGED <<G, pos_before, args, pos_dict, inverse_pos_dict, node_trace,
                   edge_trace, middle_node_trace, edge_properties, last_event>>

Next == PlotGraph \/ GenerateNodeTraces \/ GenerateEdgeTraces \/ GenerateFigure

Spec == Init /\ [][Next]_vars

SpecEdges == InitEdges /\ [][Next]_vars

-----------------------------------------------------------------------------
(* The callbacks, as the rendering runtime delivers them to a bound figure *)

\* The state lines 406-430 of generate_figure establish: the figure holds its own
\* node trace, original_node_trace is the trace generate_node_traces built, and the
\* two callbacks are registered.  Every node has a stored position, so __init__
\* reuses the stored positions; the first two nodes may share one.
InitHover ==
    \E g \in GraphsOf(MaxNodes, MaxEdges, SomePos, {DefaultData}, {FALSE}) :
    \E cs \in {<<"degree", "degree">>, <<"#1f77b4", "static">>} :
    \E out \in LayoutOutcomes(g, None) :
        LET a  == [DefaultArgs EXCEPT !.color_method = cs[1], !.size_method = cs[2]]
            r  == PlotGraph_init(g, None, out)
            nt == generate_node_traces(r.G, a.color_method, a.size_method)
            et == generate_edge_traces(r.G, a.edge_label, a.edge_text)
        IN  /\ G = r.G
            /\ pos_before = g.pos
            /\ args = a
            /\ pc = "returned"
            /\ err = NoError
            /\ pos_dict = r.pos_dict
            /\ inverse_pos_dict = r.inverse_pos_dict
            /\ node_trace = nt.trace
            /\ edge_trace = et.edge_trace
            /\ middle_node_trace = et.middle_node_trace
            /\ edge_properties = et.edge_properties
            /\ f_data1 = FigureWidget_data1(nt.trace)
            /\ last_event = NoEvent

Bound == pc = "returned" /\ args.highlight_neighbours_on_hover

\* The pointer enters a mark of the node trace, or a mark of another trace (then the
\* node trace's callback gets no point).
Hover ==
    /\ Bound
    /\ \E points \in {NoPoints} \cup {PointsAt(f_data1, i) : i \in DOMAIN f_data1.x} :
        /\ f_data1' = on_hover(G, pos_dict, inverse_pos_dict, f_data1, points)
        /\ last_event' =
               [type |-> "hover",
                ind  |-> IF points.point_inds = <<>> THEN 0 ELSE points.point_inds[1],
                node |-> IF points.point_inds = <<>> THEN 0
                         ELSE hovered_node(inverse_pos_dict, points),
                was_dimmed |-> f_data1.color # node_trace.color]
    /\ UNCHANGED <<G, pos_before, args, pc, err, pos_dict, inverse_pos_dict, node_trace,
                   edge_trace, middle_node_trace, edge_properties>>

\* The pointer leaves.
Unhover ==
    /\ Bound
    /\ f_data1' = on_unhover(f_data1, node_trace)
    /\ last_event' = [type |-> "unhover", ind |-> 0, node |-> 0,
                       was_dimmed |-> f_data1.color # node_trace.color]
    /\ UNCHANGED <<G, pos_before, args, pc, err, pos_dict, inverse_pos_dict, node_trace,
                   edge_trace, middle_node_trace, edge_properties>>

NextHover == Hover \/ Unhover

SpecHover == InitHover /\ [][NextHover]_vars

-----------------------------------------------------------------------------
(* Properties *)

\* PlotGraph(G, layout) has returned.
Constructed == pc # "PlotGraph" /\ err.at # "PlotGraph"

\* generate_edge_traces has returned.
EdgeTracesReturned == pc \in {"generate_figure", "returned"} \/ err.at = "generate_figure"

EntriesFor(d, key) == Cardinality({i \in DOMAIN d : d[i].k = key})

EveryNodePositioned ==
    \A node \in Nodes(G) :
        /\ EntriesFor(pos_dict, node) = 1
        /\ G.pos[node] # NoPos
        /\ G.pos[node] = Get(pos_dict, node)

RECURSIVE DistinctPairs(_, _, _)
\* The node pairs of the edges from i on, each once, in order of first sighting.
DistinctPairs(edges, i, seen) ==
    IF i > Len(edges) THEN seen
    ELSE DistinctPairs(edges, i + 1,
                       IF \E j \in DOMAIN seen : seen[j] = <<edges[i].u, edges[i].v>>
                       THEN seen ELSE Append(seen, <<edges[i].u, edges[i].v>>))

RECURSIVE PairValues(_, _, _, _)
\* The values of attribute prop on the edges of one node pair, in visiting order.
PairValues(edges, i, pair, prop) ==
    IF i > Len(edges) THEN <<>>
    ELSE (IF <<edges[i].u, edges[i].v>> = pair THEN <<edges[i].data[prop]>> ELSE <<>>)
         \o PairValues(edges, i + 1, pair, prop)

MidpointRequested == TruthyList(args.edge_text) \/ TruthyStr(args.edge_label)

\* C1: plot(G, ...) runs all four stages and returns the figure; it never ends in an
\* error raised by its call of generate_figure.
C1_PlotReturnsTheFigure == err.at # "generate_figure"

\* C2: with a recognized layout name given, once PlotGraph is constructed every node
\* has exactly one entry in pos_dict and that entry is its "pos" attribute on G,
\* whatever "pos" it carried before.
C2_ExplicitLayoutPositionsEveryNode ==
    (args.layout \in LayoutNames /\ Constructed) => EveryNodePositioned

C2_Witness ==
    /\ args.layout \in LayoutNames
    /\ pc = "generate_node_traces"
    /\ G.n >= 2
    /\ \E node \in Nodes(G) : pos_before[node] # NoPos /\ G.pos[node] # pos_before[node]
    /\ \E node \in Nodes(G) : pos_before[node] = NoPos

\* C3: with no layout name given, the stored positions are reused unchanged only if
\* every node has one; otherwise the random layout is applied; either way every node
\* has exactly one position afterwards and trace assembly finds a position for every
\* node.
C3_NoLayoutPositionsEveryNode ==
    (args.layout = None /\ Constructed) =>
        /\ EveryNodePositioned
        /\ (\A node \in Nodes(G) : pos_before[node] # NoPos) => G.pos = pos_before
        /\ err.at # "generate_node_traces"

\* C4: the x and y sequences of the edge trace each hold, per edge and in visiting
\* order, the two endpoint coordinates and then None: 3 entries per edge.
C4_EdgeTraceThreePerEdge ==
    EdgeTracesReturned =>
        /\ Len(edge_trace.x) = 3 * Len(G.edges)
        /\ Len(edge_trace.y) = 3 * Len(G.edges)
        /\ \A i \in DOMAIN G.edges :
            LET p0 == G.pos[G.edges[i].u]
                p1 == G.pos[G.edges[i].v]
            IN  /\ SubSeq(edge_trace.x, 3 * i - 2, 3 * i) = <<Num(p0[1]), Num(p1[1]), NoneValue>>
                /\ SubSeq(edge_trace.y, 3 * i - 2, 3 * i) = <<Num(p0[2]), Num(p1[2]), NoneValue>>

C4_Witness ==
    /\ pc = "generate_figure"
    /\ Len(G.edges) = 2
    /\ <<G.edges[1].u, G.edges[1].v>> = <<G.edges[2].u, G.edges[2].v>>
    /\ G.edges[1].u # G.edges[1].v
    /\ TruthyList(args.edge_text)
    /\ TruthyStr(args.edge_label)

\* C5: with edge_text given, the entry of every node pair holds, for each requested
\* attribute, the list of that attribute's values on the pair's edges in visiting
\* order, and the pair's hover text has a line with that list for each attribute.
C5_EveryAttributeAggregated ==
    (EdgeTracesReturned /\ TruthyList(args.edge_text)) =>
        \A i \in DOMAIN edge_properties :
            \A j \in DOMAIN args.edge_text :
                LET prop   == args.edge_text[j]
                    values == PairValues(G.edges, 1, edge_properties[i].k, prop)
                IN  /\ Has(edge_properties[i].v, prop)
                    /\ Get(edge_properties[i].v, prop) = values
                    /\ \E l \in DOMAIN middle_node_trace.hovertext[i] :
                           middle_node_trace.hovertext[i][l] = [k |-> prop, v |-> values]

\* C6: with edge_text or edge_label given, the midpoint trace has exactly one mark per
\* distinct node pair, in order of first sighting, at the mean of the two endpoint
\* positions; with neither given it has no mark.
C6_OneMidpointPerPair ==
    EdgeTracesReturned =>
        LET pairs == IF MidpointRequested THEN DistinctPairs(G.edges, 1, <<>>) ELSE <<>>
        IN  /\ Len(middle_node_trace.x) = Len(pairs)
            /\ Len(middle_node_trace.y) = Len(pairs)
            /\ \A i \in DOMAIN pairs :
                LET p0 == G.pos[pairs[i][1]]
                    p1 == G.pos[pairs[i][2]]
                IN  /\ 2 * middle_node_trace.x[i] = p0[1] + p1[1]
                    /\ 2 * middle_node_trace.y[i] = p0[2] + p1[2]

C6_Witness ==
    /\ pc = "generate_figure"
    /\ MidpointRequested
    /\ Len(G.edges) = 2
    /\ <<G.edges[1].u, G.edges[1].v>> = <<G.edges[2].u, G.edges[2].v>>
    /\ G.edges[1].u # G.edges[1].v
    /\ Len(middle_node_trace.x) = 1

C9_OneLabelPerMidpoint ==
    (EdgeTracesReturned /\ TruthyStr(args.edge_label)) =>
        LET pairs == DistinctPairs(G.edges, 1, <<>>)
        IN  /\ Len(middle_node_trace.text) = Len(middle_node_trace.x)
            /\ Len(middle_node_trace.text) = Len(pairs)
            /\ \A i \in DOMAIN pairs :
                LET labels == PairValues(G.edges, 1, pairs[i], args.edge_label)
                IN  middle_node_trace.text[i] = labels[Len(labels)]

====
